---- MODULE Spec2Model ----
(***************************************************************************)
(* DataCleaner of src/app.py (analyze, auto_fix) as a state machine.       *)
(*                                                                         *)
(* A DataFrame is a record [rows, dtype]: rows is the sequence of rows,    *)
(* each a tuple of cells, one per column of Cols; dtype is the tuple of    *)
(* the columns' pandas dtypes ("object", "int64", "float64",               *)
(* "datetime64").  A cell is a record [k, v]:                              *)
(*   k = "nan"   a missing cell (None / NaN / NaT), v = << >>              *)
(*   k = "text"  a Python str, v = its characters                          *)
(*   k = "num"   a number, v = <<h>> with h twice the number (so that a    *)
(*               median x.5 is representable)                              *)
(*   k = "ts"    a Timestamp, v = <<t>>                                    *)
(* The pandas calls are modelled with the semantics of pandas 1.x / 2.x,   *)
(* the versions the code's dtype == 'object' tests are written for.        *)
(***************************************************************************)
EXTENDS Integers, Sequences, FiniteSets, TLC

VARIABLES df, orig, aliased, changes, report, result, runs, stages

vars == <<df, orig, aliased, changes, report, result, runs, stages>>

\* ------------------------------------------------------------------ bounds
MaxRows == 2
MaxRuns == 2

\* ------------------------------------------------------------------- cells
NaN == [k |-> "nan", v |-> << >>]
Text(s) == [k |-> "text", v |-> s]
Num(h) == [k |-> "num", v |-> <<h>>]
Ts(t) == [k |-> "ts", v |-> <<t>>]

isnull(c) == c.k = "nan"
notna(c) == ~isnull(c)

DigitChars == <<"0", "1", "2", "3", "4", "5", "6", "7", "8", "9">>
IsDigit(ch) == \E i \in 1..10 : DigitChars[i] = ch
DigitVal(ch) == (CHOOSE i \in 1..10 : DigitChars[i] = ch) - 1
IsSpace(ch) == ch = " "

\* ----------------------------------------------------------------- strings
RECURSIVE lstrip(_)
lstrip(s) == IF s # << >> /\ IsSpace(Head(s)) THEN lstrip(Tail(s)) ELSE s

RECURSIVE rstrip(_)
rstrip(s) ==
    IF s # << >> /\ IsSpace(s[Len(s)]) THEN rstrip(SubSeq(s, 1, Len(s) - 1)) ELSE s

\* str.strip()
strip(s) == rstrip(lstrip(s))

\* re.search(r'^\s|\s$', s)
has_extra_space(s) == s # << >> /\ (IsSpace(s[1]) \/ IsSpace(s[Len(s)]))

RECURSIVE IntDigits(_)
IntDigits(n) ==
    IF n < 10 THEN <<DigitChars[n + 1]>>
    ELSE IntDigits(n \div 10) \o <<DigitChars[(n % 10) + 1]>>

RECURSIVE DigitsInt(_)
DigitsInt(s) ==
    IF s = << >> THEN 0 ELSE 10 * DigitsInt(SubSeq(s, 1, Len(s) - 1)) + DigitVal(s[Len(s)])

AllDigits(s) == s # << >> /\ \A i \in 1..Len(s) : IsDigit(s[i])

\* A date text is "<digits>-<digits>" here; Timestamp t = 10 * month + day.
IsDateText(s) == Len(s) = 3 /\ IsDigit(s[1]) /\ s[2] = "-" /\ IsDigit(s[3])

\* str(x) of a cell, as Series.astype(str) applies it: a missing cell
\* becomes the text 'nan'.
astype_str(c) ==
    CASE c.k = "nan" -> Text(<<"n", "a", "n">>)
      [] c.k = "text" -> c
      [] c.k = "num" ->
            Text(IntDigits(c.v[1] \div 2) \o <<".">> \o
                 (IF c.v[1] % 2 = 0 THEN <<"0">> ELSE <<"5">>))
      [] c.k = "ts" ->
            Text(IntDigits(c.v[1] \div 10) \o <<"-">> \o IntDigits(c.v[1] % 10))

\* pd.to_numeric(x, errors='coerce') of one cell: surrounding whitespace is
\* skipped by the parser, 'nan' and '' and every unparseable value give NaN.
to_numeric(c) ==
    CASE c.k = "num" -> c
      [] c.k = "text" ->
            IF AllDigits(strip(c.v)) THEN Num(2 * DigitsInt(strip(c.v))) ELSE NaN
      [] OTHER -> NaN

\* pd.to_datetime(x, errors='coerce') of one cell: numbers are epoch offsets.
to_datetime(c) ==
    CASE c.k = "ts" -> c
      [] c.k = "num" -> Ts(c.v[1] \div 2)
      [] c.k = "text" ->
            IF IsDateText(strip(c.v))
            THEN Ts(10 * DigitVal(strip(c.v)[1]) + DigitVal(strip(c.v)[3]))
            ELSE NaN
      [] OTHER -> NaN

\* ---------------------------------------------------------------- columns
Cols == << <<"a">>, <<"D", "a", "t", "e">> >>
NCols == Len(Cols)

lower(ch) == CASE ch = "D" -> "d" [] ch = "T" -> "t" [] OTHER -> ch
str_lower(s) == [i \in 1..Len(s) |-> lower(s[i])]
str_in(sub, s) ==
    \E i \in 0..(Len(s) - Len(sub)) : SubSeq(s, i + 1, i + Len(sub)) = sub

\* 'date' in col.lower() or 'time' in col.lower()
is_date_name(col) ==
    \/ str_in(<<"d", "a", "t", "e">>, str_lower(col))
    \/ str_in(<<"t", "i", "m", "e">>, str_lower(col))

nrows(f) == Len(f.rows)
column(f, j) == [i \in 1..nrows(f) |-> f.rows[i][j]]

RECURSIVE SeqCount(_, _)
SeqCount(s, n) ==
    IF n = 0 THEN 0 ELSE SeqCount(s, n - 1) + (IF s[n] THEN 1 ELSE 0)

\* Series.sum() of a boolean Series
count_true(s) == SeqCount(s, Len(s))

RECURSIVE SumTo(_, _)
SumTo(f, n) == IF n = 0 THEN 0 ELSE SumTo(f, n - 1) + f[n]

\* df.isnull().sum().sum()
empty_cells(f) ==
    SumTo([j \in 1..NCols |-> count_true([i \in 1..nrows(f) |-> isnull(f.rows[i][j])])],
          NCols)

\* df.duplicated(): row i repeats an earlier row (missing equals missing)
duplicated(f) ==
    [i \in 1..nrows(f) |-> \E e \in 1..(i - 1) : f.rows[e] = f.rows[i]]

\* Mutants of drop_duplicates: one for which a missing cell equals nothing
\* (NaN != NaN), one that keeps no copy of a repeated row (keep=False).
HasMissing(row) == \E j \in 1..Len(row) : isnull(row[j])

RECURSIVE KeepFirstNanDistinct(_, _)
KeepFirstNanDistinct(rows, n) ==
    IF n = 0 THEN << >>
    ELSE IF \E e \in 1..(n - 1) : rows[e] = rows[n] /\ ~HasMissing(rows[n])
         THEN KeepFirstNanDistinct(rows, n - 1)
         ELSE Append(KeepFirstNanDistinct(rows, n - 1), rows[n])

drop_duplicates_nan_distinct(f) ==
    [rows |-> KeepFirstNanDistinct(f.rows, nrows(f)), dtype |-> f.dtype]

drop_duplicates_keep_none(f) ==
    [rows |-> SelectSeq(f.rows, LAMBDA r : Cardinality({i \in 1..nrows(f) : f.rows[i] = r}) = 1),
     dtype |-> f.dtype]

RECURSIVE KeepFirst(_, _)
KeepFirst(rows, n) ==
    IF n = 0 THEN << >>
    ELSE IF \E e \in 1..(n - 1) : rows[e] = rows[n]
         THEN KeepFirst(rows, n - 1)
         ELSE Append(KeepFirst(rows, n - 1), rows[n])

\* df.drop_duplicates(): a new frame keeping the first of each distinct row
drop_duplicates(f) == [rows |-> KeepFirst(f.rows, nrows(f)), dtype |-> f.dtype]

\* ----------------------------------------------------------------- analyze
TypeName(c) ==
    CASE c.k = "text" -> "str" [] c.k = "num" -> "float" [] c.k = "ts" -> "Timestamp"
      [] OTHER -> "NoneType"

\* types of the non-missing values of a column
value_types(f, j) == {TypeName(f.rows[i][j]) : i \in {r \in 1..nrows(f) : notna(f.rows[r][j])}}

\* number of values of a column whose str() has leading or trailing whitespace
spaces(f, j) ==
    count_true([i \in 1..nrows(f) |-> has_extra_space(astype_str(f.rows[i][j]).v)])

\* pd.to_numeric(col, errors='coerce').notna().sum()
numeric_count(f, j) == count_true([i \in 1..nrows(f) |-> notna(to_numeric(f.rows[i][j]))])

\* pd.to_datetime(col) raises: some present value does not parse
to_datetime_raises(f, j) ==
    \E i \in 1..nrows(f) : notna(f.rows[i][j]) /\ isnull(to_datetime(f.rows[i][j]))

\* numeric_count > len(self.df) * 0.5 in analyze
numeric_flagged(k, n) == 2 * k > n

Issue(kind, n) == [kind |-> kind, n |-> n]

col_issues(f, j) ==
    (IF f.dtype[j] = "object" /\ Cardinality(value_types(f, j)) > 1
        THEN <<Issue("Mixed types", Cardinality(value_types(f, j)))>> ELSE << >>)
    \o (IF f.dtype[j] = "object" /\ spaces(f, j) > 0
        THEN <<Issue("values with extra spaces", spaces(f, j))>> ELSE << >>)
    \o (IF is_date_name(Cols[j]) /\ to_datetime_raises(f, j)
        THEN <<Issue("Inconsistent date format", 0)>> ELSE << >>)
    \o (IF f.dtype[j] = "object" /\ numeric_flagged(numeric_count(f, j), nrows(f))
        THEN <<Issue("Numeric values stored as text", numeric_count(f, j))>> ELSE << >>)

analyze(f) ==
    [empty_cells |-> empty_cells(f),
     duplicate_rows |-> count_true(duplicated(f)),
     total_rows |-> nrows(f),
     total_columns |-> NCols,
     column_issues |-> [j \in {c \in 1..NCols : col_issues(f, c) # << >>} |-> col_issues(f, j)]]

\* ---------------------------------------------------------------- auto_fix
\* A change-log entry: the message with its column name and its count.
Entry(kind, col, n) == [kind |-> kind, col |-> col, n |-> n]

\* Mutant of log_append: the entry is inserted at the front of the list.
log_prepend(log, e) == <<e>> \o log

\* self.changes.append(entry)
log_append(log, e) == Append(log, e)

\* self.df[col] = values: the frame self.df refers to is written in place, so
\* the caller's frame changes with it while self.df is still that object.
setitem(st, j, vals, dt) ==
    LET new == [rows |-> [i \in 1..nrows(st.df) |-> [st.df.rows[i] EXCEPT ![j] = vals[i]]],
                dtype |-> [st.df.dtype EXCEPT ![j] = dt]]
    IN [st EXCEPT !.df = new, !.orig = IF st.aliased THEN new ELSE st.orig]

\* 1. Remove duplicate rows: self.df is rebound to a new frame only when
\* there is a duplicate.
stage1(st) ==
    LET duplicates == count_true(duplicated(st.df))
    IN IF duplicates > 0
       THEN [st EXCEPT !.df = drop_duplicates(st.df),
                       !.aliased = FALSE,
                       !.changes = log_append(st.changes,
                                              Entry("Removed duplicate rows", << >>, duplicates))]
       ELSE st

object_columns(f) == {j \in 1..NCols : f.dtype[j] = "object"}

\* Mutant of stage2_col: one entry per trimmed value instead of one per column.
RECURSIVE log_per_value(_, _, _, _)
log_per_value(log, col, j, n) ==
    IF n = 0 THEN log
    ELSE LET rest == log_per_value(log, col, j, n - 1)
         IN IF has_extra_space(astype_str(col[n]).v)
            THEN log_append(rest, Entry("Trimmed spaces in column", Cols[j], 0))
            ELSE rest

stage2_col_per_value(st, j) ==
    IF \E i \in 1..nrows(st.df) : has_extra_space(astype_str(st.df.rows[i][j]).v)
    THEN LET vals == [i \in 1..nrows(st.df) |-> Text(strip(astype_str(st.df.rows[i][j]).v))]
             w == setitem(st, j, vals, "object")
         IN [w EXCEPT !.changes = log_per_value(st.changes, column(st.df, j), j, nrows(st.df))]
    ELSE st

stage2_col(st, j) ==
    IF \E i \in 1..nrows(st.df) : has_extra_space(astype_str(st.df.rows[i][j]).v)
    THEN LET vals == [i \in 1..nrows(st.df) |-> Text(strip(astype_str(st.df.rows[i][j]).v))]
             w == setitem(st, j, vals, "object")
         IN [w EXCEPT !.changes = log_append(st.changes,
                                             Entry("Trimmed spaces in column", Cols[j], 0))]
    ELSE st

RECURSIVE stage2_loop(_, _, _)
stage2_loop(st, cols, j) ==
    IF j > NCols THEN st
    ELSE stage2_loop(IF j \in cols THEN stage2_col(st, j) ELSE st, cols, j + 1)

\* 2. Trim spaces in text columns
stage2(st) == stage2_loop(st, object_columns(st.df), 1)

\* Mutant of numeric_majority: the boundary itself counts (>= instead of >).
numeric_majority_inclusive(k, n) == 2 * k >= n

\* converted.notna().sum() > len(self.df) * 0.5 in auto_fix
numeric_majority(k, n) == 2 * k > n

\* dtype of the Series pd.to_numeric returns
numeric_dtype(vals) ==
    IF \E i \in 1..Len(vals) : isnull(vals[i]) THEN "float64" ELSE "int64"

stage3_col(st, j) ==
    LET converted == [i \in 1..nrows(st.df) |-> to_numeric(st.df.rows[i][j])]
    IN IF numeric_majority(count_true([i \in 1..Len(converted) |-> notna(converted[i])]),
                           nrows(st.df))
       THEN LET w == setitem(st, j, converted, numeric_dtype(converted))
            IN [w EXCEPT !.changes = log_append(st.changes,
                                                Entry("Converted to numeric", Cols[j], 0))]
       ELSE st

RECURSIVE stage3_loop(_, _, _)
stage3_loop(st, cols, j) ==
    IF j > NCols THEN st
    ELSE stage3_loop(IF j \in cols THEN stage3_col(st, j) ELSE st, cols, j + 1)

\* 3. Fix numeric columns stored as text
stage3(st) == stage3_loop(st, object_columns(st.df), 1)

stage4_col(st, j) ==
    LET vals == [i \in 1..nrows(st.df) |-> to_datetime(st.df.rows[i][j])]
        w == setitem(st, j, vals, "datetime64")
    IN [w EXCEPT !.changes = log_append(st.changes,
                                        Entry("Standardized dates in", Cols[j], 0))]

RECURSIVE stage4_loop(_, _)
stage4_loop(st, j) ==
    IF j > NCols THEN st
    ELSE stage4_loop(IF is_date_name(Cols[j]) THEN stage4_col(st, j) ELSE st, j + 1)

\* 4. Standardize date columns
stage4(st) == stage4_loop(st, 1)

PresentHalves(col) == SelectSeq([i \in 1..Len(col) |-> col[i]], notna)

\* Series.median(): NaN when no value is present.  Values are kept doubled,
\* so the mean of the two middle values is their doubled sum halved.
median(col) ==
    LET s == SortSeq(PresentHalves(col), LAMBDA x, y : x.v[1] < y.v[1])
        m == Len(s)
    IN IF m = 0 THEN NaN
       ELSE IF m % 2 = 1 THEN s[(m + 1) \div 2]
       ELSE Num((s[m \div 2].v[1] + s[(m \div 2) + 1].v[1]) \div 2)

\* Series.fillna(value): fillna(NaN) leaves the missing cells missing
fillna(col, value) == [i \in 1..Len(col) |-> IF isnull(col[i]) THEN value ELSE col[i]]

\* dtype after fillna('Unknown'): filling a datetime64 column with a str
\* upcasts it to object; a column with nothing to fill keeps its dtype
unknown_dtype(col, dt) ==
    IF \E i \in 1..Len(col) : isnull(col[i]) THEN "object" ELSE dt

Unknown == Text(<<"U", "n", "k", "n", "o", "w", "n">>)

\* Mutant of stage5_col: only object columns are filled with 'Unknown'.
stage5_col_object_only(st, j) ==
    LET col == column(st.df, j)
    IN IF st.df.dtype[j] \in {"int64", "float64"}
       THEN setitem(st, j, fillna(col, median(col)), st.df.dtype[j])
       ELSE IF st.df.dtype[j] = "object"
            THEN setitem(st, j, fillna(col, Unknown), "object")
            ELSE st

stage5_col(st, j) ==
    LET col == column(st.df, j)
    IN IF st.df.dtype[j] \in {"int64", "float64"}
       THEN setitem(st, j, fillna(col, median(col)), st.df.dtype[j])
       ELSE setitem(st, j, fillna(col, Unknown), unknown_dtype(col, st.df.dtype[j]))

RECURSIVE stage5_loop(_, _)
stage5_loop(st, j) == IF j > NCols THEN st ELSE stage5_loop(stage5_col(st, j), j + 1)

\* 5. Fill empty cells
stage5(st) ==
    LET empty_before == empty_cells(st.df)
        w == stage5_loop(st, 1)
    IN IF empty_before > 0
       THEN [w EXCEPT !.changes = log_append(w.changes,
                                             Entry("Filled empty cells", << >>, empty_before))]
       ELSE w

\* Mutant of auto_fix_trace: the call starts from an empty change log.
auto_fix_trace_reset(st) ==
    LET s1 == stage1([st EXCEPT !.changes = << >>])
        s2 == stage2(s1)
        s3 == stage3(s2)
        s4 == stage4(s3)
        s5 == stage5(s4)
    IN <<st, s1, s2, s3, s4, s5>>

\* The states of one auto_fix call: on entry and after each of the stages.
auto_fix_trace(st) ==
    LET s1 == stage1(st)
        s2 == stage2(s1)
        s3 == stage3(s2)
        s4 == stage4(s3)
        s5 == stage5(s4)
    IN <<st, s1, s2, s3, s4, s5>>

\* ------------------------------------------------------------ input frames
TextA == { <<"1">>, <<" ", "1">>, <<"2", " ">>, <<"x">> }
TextDate == { <<"1", "-", "2">>, <<" ", "1", "-", "2">>, <<"x">> }

\* the values a column of each dtype holds when read from a file
ColumnDomain(j, dt) ==
    CASE dt = "object" ->
            {NaN} \cup {Text(s) : s \in (IF is_date_name(Cols[j]) THEN TextDate ELSE TextA)}
      [] dt = "float64" -> {NaN, Num(2), Num(4)}
      [] dt = "datetime64" -> {NaN, Ts(12)}

InputDtypes(j) == IF is_date_name(Cols[j]) THEN {"object", "datetime64"} ELSE {"object", "float64"}

\* the frame of n rows with columns ca, cd of dtypes da, dd
Frame(n, da, ca, dd, cd) ==
    [rows |-> [i \in 1..n |-> <<ca[i], cd[i]>>], dtype |-> <<da, dd>>]

NoReport == [empty_cells |-> -1]
NoResult == [rows_before |-> -1]

\* ---------------------------------------------------------------- actions
\* cleaner = DataCleaner(df): self.df is the caller's frame itself.
Init ==
    /\ \E n \in 0..MaxRows, da \in InputDtypes(1), dd \in InputDtypes(2) :
          \E ca \in [1..n -> ColumnDomain(1, da)], cd \in [1..n -> ColumnDomain(2, dd)] :
             orig = Frame(n, da, ca, dd, cd)
    /\ df = orig
    /\ aliased = TRUE
    /\ changes = << >>
    /\ report = NoReport
    /\ result = NoResult
    /\ runs = 0
    /\ stages = << >>

Analyze ==
    /\ report' = analyze(df)
    /\ UNCHANGED <<df, orig, aliased, changes, result, runs, stages>>

AutoFix ==
    /\ runs < MaxRuns
    /\ stages' = auto_fix_trace([df |-> df, orig |-> orig, aliased |-> aliased,
                                 changes |-> changes])
    /\ df' = stages'[6].df
    /\ orig' = stages'[6].orig
    /\ aliased' = stages'[6].aliased
    /\ changes' = stages'[6].changes
    /\ result' = [rows_before |-> nrows(df), rows_after |-> nrows(df'),
                  changes |-> changes']
    /\ runs' = runs + 1
    /\ UNCHANGED report

Next == Analyze \/ AutoFix

Spec == Init /\ [][Next]_vars

\* ------------------------------------------------------------ claim helpers
Ran == runs > 0

\* the frame auto_fix was entered with, and the frame after stage k
Entered == stages[1].df
After(k) == stages[k + 1].df

\* the entries stage k of the last auto_fix call appended
StageEntries(k) ==
    SubSeq(stages[k + 1].changes, Len(stages[k].changes) + 1, Len(stages[k + 1].changes))

IsPrefix(s, t) == Len(s) <= Len(t) /\ SubSeq(t, 1, Len(s)) = s

DistinctRows(f) == Cardinality({f.rows[i] : i \in 1..nrows(f)})

HasEntry(log, kind) == \E i \in 1..Len(log) : log[i].kind = kind

\* ---------------------------------------------------------------------- C1
\* C1 (as claimed): after auto_fix, analyze of the cleaned output reports
\* duplicate_rows = 0, also for rows that became equal through a later stage.
C1_NoDuplicatesAfterRun == Ran => analyze(df).duplicate_rows = 0

\* C1 (amended): right after stage 1 (deduplicate) the working frame has no
\* duplicate row, and it has exactly the distinct rows of the frame entered.
C1_NoDuplicatesAfterStage1 ==
    Ran => /\ count_true(duplicated(After(1))) = 0
           /\ {After(1).rows[i] : i \in 1..nrows(After(1))}
                = {Entered.rows[i] : i \in 1..nrows(Entered)}

C1_Witness ==
    /\ Ran
    /\ count_true(duplicated(Entered)) > 0
    /\ nrows(After(1)) < nrows(Entered)

\* ---------------------------------------------------------------------- C2
\* C2: auto_fix never mutates the frame the caller passed: after the call it
\* has the cells and the dtypes it had before the call.
C2_CallerFrameUnchanged == Ran => orig = stages[1].orig

AllMissingNumeric(f) ==
    \E j \in 1..NCols :
        /\ f.dtype[j] \in {"int64", "float64"}
        /\ \A i \in 1..nrows(f) : isnull(f.rows[i][j])

C4_NoMissingAfterRun ==
    Ran => (analyze(df).empty_cells = 0 \/ AllMissingNumeric(After(4)))

C4_Witness ==
    /\ Ran
    /\ \E j \in 1..NCols, i \in 1..nrows(After(4)) :
          After(4).dtype[j] = "datetime64" /\ isnull(After(4).rows[i][j])
    /\ \E j \in 1..NCols, i \in 1..nrows(After(4)) :
          After(4).dtype[j] = "float64" /\ isnull(After(4).rows[i][j])
    /\ analyze(df).empty_cells = 0

\* ---------------------------------------------------------------------- C5
\* C5: rows_before is the input row count and rows_after the number of
\* distinct rows of the raw input; rows_after <= rows_before with equality
\* iff the raw input has no exact duplicate; rows that differ only by
\* whitespace are all kept and give no dedup entry.
C5_RowCounts ==
    Ran => /\ result.rows_before = nrows(Entered)
           /\ result.rows_after = DistinctRows(Entered)
           /\ result.rows_after = nrows(df)
           /\ result.rows_after <= result.rows_before
           /\ (result.rows_after = result.rows_before
                 <=> count_true(duplicated(Entered)) = 0)
           /\ (HasEntry(StageEntries(1), "Removed duplicate rows")
                 <=> count_true(duplicated(Entered)) > 0)

\* two raw rows that differ only by whitespace, equal in the output, both kept
C5_Witness ==
    /\ runs = 1
    /\ nrows(Entered) = 2
    /\ Entered.rows[1] # Entered.rows[2]
    /\ result.rows_after = 2
    /\ df.rows[1] = df.rows[2]
    /\ ~HasEntry(changes, "Removed duplicate rows")
    /\ HasEntry(changes, "Trimmed spaces in column")

\* ---------------------------------------------------------------------- C6
\* the report rep of analyze names column j as numeric values stored as text
Flagged(rep, j) ==
    /\ j \in DOMAIN rep.column_issues
    /\ \E x \in 1..Len(rep.column_issues[j]) :
          rep.column_issues[j][x].kind = "Numeric values stored as text"

\* stage 3 of the last auto_fix call converted column j
Converted(j) ==
    \E x \in 1..Len(StageEntries(3)) :
        /\ StageEntries(3)[x].kind = "Converted to numeric"
        /\ StageEntries(3)[x].col = Cols[j]

\* the number of cells of column j that hold a number or a text that is,
\* whitespace aside, a string of digits
Parseable(f, j) ==
    Cardinality({i \in 1..nrows(f) :
                    \/ f.rows[i][j].k = "num"
                    \/ f.rows[i][j].k = "text" /\ AllDigits(strip(f.rows[i][j].v))})

\* C6: for a text column with k parseable values among the n rows the
\* operation sees, analyze reports it iff k > n/2 and auto_fix converts it
\* iff k > n/2 (not at exactly half, not at n = 0); so on a frame without
\* duplicate rows analyze flags a column exactly when auto_fix converts it.
C6_SameThreshold ==
    Ran => \A rep \in {analyze(Entered)} : \A j \in 1..NCols :
             /\ Flagged(rep, j)
                  <=> (Entered.dtype[j] = "object"
                         /\ 2 * Parseable(Entered, j) > nrows(Entered))
             /\ Converted(j)
                  <=> (After(1).dtype[j] = "object"
                         /\ 2 * Parseable(After(1), j) > nrows(After(1)))
             /\ Converted(j) => After(3).dtype[j] \in {"int64", "float64"}
             /\ (rep.duplicate_rows = 0 => (Flagged(rep, j) <=> Converted(j)))

\* exactly half of the values parse: no report, no conversion
C6_Witness ==
    /\ Ran
    /\ nrows(Entered) = 2
    /\ analyze(Entered).duplicate_rows = 0
    /\ Entered.dtype[1] = "object"
    /\ Parseable(Entered, 1) = 1
    /\ ~Flagged(analyze(Entered), 1)
    /\ ~Converted(1)
    /\ After(3).dtype[1] = "object"

\* ---------------------------------------------------------------------- C7
\* C7: a stage appends an entry only if it had an effect: a stage that
\* leaves every cell, every dtype and every row unchanged appends nothing,
\* and a run that changes nothing returns an empty change log.
C7_EntryOnlyIfEffect ==
    Ran => /\ \A k \in 1..5 : After(k) = stages[k].df => StageEntries(k) = << >>
           /\ (runs = 1 /\ df = Entered => changes = << >>)

\* ---------------------------------------------------------------------- C8
\* C8: stage 2 (trim) leaves missing cells untouched: a cell that is missing
\* before stage 2 is missing after it.
C8_TrimKeepsMissing ==
    Ran => \A i \in 1..nrows(After(1)), j \in 1..NCols :
              isnull(After(1).rows[i][j]) => isnull(After(2).rows[i][j])

\* ---------------------------------------------------------------------- C9
StageRank(kind) ==
    CASE kind = "Removed duplicate rows" -> 1
      [] kind = "Trimmed spaces in column" -> 2
      [] kind = "Converted to numeric" -> 3
      [] kind = "Standardized dates in" -> 4
      [] kind = "Filled empty cells" -> 5

\* C9: in the change log of one run on a fresh DataCleaner the entries are
\* in stage order: Removed, then Trimmed, then Converted, then Standardized,
\* then Filled.
C9_LogInStageOrder ==
    runs = 1 => /\ result.changes = changes
                /\ \A x, y \in 1..Len(changes) :
                      x < y => StageRank(changes[x].kind) <= StageRank(changes[y].kind)
                /\ \A x \in 1..Len(changes) :
                      /\ changes[x].kind = "Removed duplicate rows" => x = 1
                      /\ changes[x].kind = "Filled empty cells" => x = Len(changes)

C9_Witness ==
    /\ runs = 1
    /\ \A r \in 1..5 : \E x \in 1..Len(changes) : StageRank(changes[x].kind) = r

\* --------------------------------------------------------------------- C10
\* C10: the change log is append-only across calls: no step removes or
\* rewrites an entry, analyze leaves the log alone, and the list an auto_fix
\* call returns has the list the previous call returned as a prefix.
C10_LogAppendOnly ==
    [][/\ IsPrefix(changes, changes')
       /\ (runs' = runs => changes' = changes)
       /\ (result # NoResult /\ result' # NoResult
             => IsPrefix(result.changes, result'.changes))
       /\ (runs' # runs => result'.changes = changes')]_vars

\* a second pass that appended, its result carrying the first pass's entries
C10_Witness ==
    /\ runs = 2
    /\ Len(stages[1].changes) > 0
    /\ Len(result.changes) > Len(stages[1].changes)
    /\ IsPrefix(stages[1].changes, result.changes)

====
